---- MODULE Spec2Model ----


(***************************************************************************)
(* A model of the spidey HTTP/1.0 server: the request parser (request.c),  *)
(* the path resolver (utils.c), the dispatcher (handler.c) and the two     *)
(* accept loops (single.c, forking.c).                                     *)
(*                                                                         *)
(* C strings are sequences of one-character strings; a null char* is the   *)
(* value NULL.  A process is numbered 0 (the control process) or c>0 (the  *)
(* child forked for connection c); units[p] is that process's copy of the  *)
(* Request it works on, and environ[p] is its process environment.         *)
(***************************************************************************)
EXTENDS Integers, Sequences, FiniteSets, TLC

VARIABLES mode, cpc, nconn, units, socks, fs, environ

vars == <<mode, cpc, nconn, units, socks, fs, environ>>

(***************************************************************************)
(* Bounds of the model.                                                    *)
(***************************************************************************)
MaxConn == 2        \* connections the listening socket delivers
MaxHeaders == 2     \* header lines a client sends before the blank line
MaxTargetLen == 3   \* characters of a generated request-target
MaxHdrLen == 3      \* characters of a generated header line before its terminator
MaxSegs == 3        \* path segments of a generated URI
MaxDots == 2        \* dots in a generated file name
MaxRules == 2       \* lines of a generated mime rules file
MaxData == 5        \* bytes of a generated file
BUFSIZ == 2         \* bytes fread moves at a time (scaled down from stdio.h)

(***************************************************************************)
(* C strings.                                                              *)
(***************************************************************************)
NULL == <<"NULL">>
NoNode == <<NULL>>
EOFLINE == <<"EOF">>

Min(S) == CHOOSE x \in S : \A y \in S : x <= y

Max(S) == CHOOSE x \in S : \A y \in S : x >= y

IsPrefix(p, s) == Len(p) <= Len(s) /\ SubSeq(s, 1, Len(p)) = p

\* All sequences over S of length lo..hi.
SeqsOf(S, lo, hi) == UNION {[1..n -> S] : n \in lo..hi}

\* strchr(s, c): index of the first c in s, 0 when there is none.
Strchr(s, c) ==
    LET idx == {i \in 1..Len(s) : s[i] = c}
    IN IF idx = {} THEN 0 ELSE Min(idx)

\* strtok(s, delims): skips leading delimiters; no token left gives found = FALSE;
\* otherwise the token runs to the next delimiter and the saved position is just
\* after that delimiter.
Strtok(s, delims) ==
    LET start == {i \in 1..Len(s) : s[i] \notin delims}
    IN IF start = {}
       THEN [found |-> FALSE, tok |-> NULL, rest |-> <<>>]
       ELSE LET b == Min(start)
                stop == {i \in b..Len(s) : s[i] \in delims}
                e == IF stop = {} THEN Len(s) + 1 ELSE Min(stop)
            IN [found |-> TRUE, tok |-> SubSeq(s, b, e - 1),
                rest |-> SubSeq(s, e + 1, Len(s))]

\* The characters the tokenizer of the request line treats as whitespace.
WHITESPACE == {" ", "\t", "\r", "\n"}

\* The fields of a line: its maximal runs of characters that are not
\* whitespace, from left to right.
FieldStarts(s) ==
    {i \in 1..Len(s) : s[i] \notin WHITESPACE /\ (i = 1 \/ s[i - 1] \in WHITESPACE)}

FieldAt(s, i) ==
    LET stop == {j \in i..Len(s) : s[j] \in WHITESPACE}
    IN SubSeq(s, i, IF stop = {} THEN Len(s) ELSE Min(stop) - 1)

Fields(s) ==
    [k \in 1..Cardinality(FieldStarts(s)) |->
        FieldAt(s, CHOOSE i \in FieldStarts(s) :
                       Cardinality({j \in FieldStarts(s) : j < i}) = k - 1)]

\* skip_whitespace(s): advance past leading ' ', '\r', '\t', '\n'.
skip_whitespace(s) ==
    LET keep == {i \in 1..Len(s) : s[i] \notin {" ", "\r", "\t", "\n"}}
    IN IF keep = {} THEN <<>> ELSE SubSeq(s, Min(keep), Len(s))

\* chomp(s): strip the trailing line-terminator characters.
chomp(s) ==
    LET keep == {i \in 1..Len(s) : s[i] \notin {"\r", "\n"}}
    IN IF keep = {} THEN <<>> ELSE SubSeq(s, 1, Max(keep))

(***************************************************************************)
(* The process environment: the value of each variable handle_cgi_request  *)
(* exports that is set.                                                    *)
(***************************************************************************)
CgiVars ==
    {"QUERY_STRING", "SCRIPT_FILENAME", "REQUEST_METHOD", "REMOTE_ADDR",
     "REQUEST_URI", "REMOTE_PORT", "DOCUMENT_ROOT", "SERVER_PORT", "HTTP_HOST",
     "HTTP_USER_AGENT"}

\* No variable set.
NoEnv == [v \in {} |-> NULL]

\* getenv: the value of a variable, NULL while it is unset.
Getenv(env, v) == IF v \in DOMAIN env THEN env[v] ELSE NULL

\* setenv(name, value, 1) for each pair of a sequence, in order.
RECURSIVE Setenv(_, _)
Setenv(env, pairs) ==
    IF pairs = <<>> THEN env
    ELSE Setenv([v \in DOMAIN env \cup {Head(pairs)[1]} |->
                    IF v = Head(pairs)[1] THEN Head(pairs)[2] ELSE env[v]],
                Tail(pairs))

\* What getnameinfo writes for the client of connection c: its numeric
\* address and port, different for each connection.
ClientHost(c) == <<"a", <<"1", "2", "3", "4">>[c]>>

ClientPort(c) == <<"p", <<"1", "2", "3", "4">>[c]>>

(***************************************************************************)
(* The Request structure (calloc'ed, so every pointer starts null).        *)
(***************************************************************************)
NoRequest ==
    [pc |-> "none", null |-> TRUE, stream |-> "null", eof |-> FALSE,
     buffer |-> <<>>, method |-> NULL, uri |-> NULL, query |-> NULL,
     path |-> NULL, headers |-> <<>>, nlines |-> 0, appended |-> FALSE,
     stat |-> "none", xok |-> FALSE, conn |-> 0, out |-> <<>>, invoked |-> <<>>, result |-> "none",
     frees |-> 0, closes |-> 0, badio |-> FALSE,
     mimetype |-> NULL, mimeopen |-> FALSE, body |-> <<>>, listing |-> <<>>,
     handles |-> <<>>, host |-> NULL, port |-> NULL, setenv |-> <<>>]

Open(r) == [r EXCEPT !.badio = @ \/ r.stream # "open"]

(***************************************************************************)
(* utils.c: http_status_string, and handler.c: handle_error.               *)
(***************************************************************************)
\* http_status_string without its case for HTTP_STATUS_NOT_FOUND.
http_status_string_no404(status) ==
    CASE status = "OK" -> "200 OK"
      [] status = "BAD_REQUEST" -> "400 Bad Request"
      [] status = "INTERNAL_SERVER_ERROR" -> "500 Internal Server Error"
      [] OTHER -> "(null)"

http_status_string(status) ==
    CASE status = "OK" -> "200 OK"
      [] status = "BAD_REQUEST" -> "400 Bad Request"
      [] status = "NOT_FOUND" -> "404 Not Found"
      [] status = "INTERNAL_SERVER_ERROR" -> "500 Internal Server Error"
      [] OTHER -> "(null)"

\* What one response head looks like on the wire: the status line and the
\* Content-Type header; `by` names the function that wrote it.
RespHead(statusString, ctype, by) ==
    [line |-> statusString, ctype |-> ctype, by |-> by]

handle_error(r, status) ==
    [Open(r) EXCEPT
        !.out = Append(@, RespHead(http_status_string(status), "text/html", "error"))]

(***************************************************************************)
(* request.c: parse_request_method.  The result is a set: strdup(NULL) is  *)
(* undefined behaviour, which either faults or yields a null pointer.      *)
(***************************************************************************)
StrdupNull == {"crash", "fail"}

parse_request_method(r, line) ==
    IF line = EOFLINE
    THEN {[ret |-> "fail", r |-> r]}
    ELSE
      LET m == Strtok(line, WHITESPACE)
      IN IF ~m.found
         THEN {[ret |-> o, r |-> r] : o \in StrdupNull}
         ELSE
           LET r1 == [r EXCEPT !.method = m.tok]
               u == Strtok(m.rest, WHITESPACE)
           IN IF ~u.found
              THEN {[ret |-> "fail", r |-> r1]}
              ELSE
                LET q == Strchr(u.tok, "?")
                IN IF q = 0
                   THEN {[ret |-> "ok",
                          r |-> [r1 EXCEPT !.uri = u.tok, !.query = <<>>]]}
                   ELSE
                     LET query == SubSeq(u.tok, q + 1, Len(u.tok))
                         realURI == Strtok(SubSeq(u.tok, 1, q - 1), {"?"})
                     IN IF ~realURI.found
                        THEN {[ret |-> o, r |-> r1] : o \in StrdupNull}
                        ELSE {[ret |-> "ok",
                               r |-> [r1 EXCEPT !.uri = realURI.tok,
                                                !.query = query]]}

\* parse_header_line without the test of the second token: a line with no ":"
\* is stored with an empty value.
parse_header_line_unchecked(r, line) ==
    IF line = EOFLINE \/ Len(line) <= 2
    THEN [ret |-> IF r.headers = <<>> THEN "fail" ELSE "ok",
          r |-> [r EXCEPT !.appended = FALSE]]
    ELSE
      LET name == Strtok(line, {":"})
          data == Strtok(name.rest, {":"})
      IN IF ~name.found
         THEN [ret |-> "fail", r |-> [r EXCEPT !.appended = FALSE]]
         ELSE [ret |-> "more",
               r |-> [r EXCEPT
                        !.appended = TRUE,
                        !.headers = Append(@,
                            [name |-> name.tok,
                             data |-> IF data.found
                                      THEN chomp(skip_whitespace(data.tok))
                                      ELSE <<>>])]]

\* parse_header_line without the test that a header was collected.
parse_header_line_empty_ok(r, line) ==
    IF line = EOFLINE \/ Len(line) <= 2
    THEN [ret |-> "ok", r |-> [r EXCEPT !.appended = FALSE]]
    ELSE
      LET name == Strtok(line, {":"})
          data == Strtok(name.rest, {":"})
      IN IF ~name.found \/ ~data.found
         THEN [ret |-> "fail", r |-> [r EXCEPT !.appended = FALSE]]
         ELSE [ret |-> "more",
               r |-> [r EXCEPT
                        !.appended = TRUE,
                        !.headers = Append(@,
                            [name |-> name.tok,
                             data |-> chomp(skip_whitespace(data.tok))])]]

(***************************************************************************)
(* request.c: parse_request_headers, one pass of its loop on the line      *)
(* fgets returned (EOFLINE when fgets returned NULL).  ret = "more" means  *)
(* the loop goes on to the next fgets.                                     *)
(***************************************************************************)
parse_header_line(r, line) ==
    IF line = EOFLINE \/ Len(line) <= 2
    THEN [ret |-> IF r.headers = <<>> THEN "fail" ELSE "ok",
          r |-> [r EXCEPT !.appended = FALSE]]
    ELSE
      LET name == Strtok(line, {":"})
          data == Strtok(name.rest, {":"})
      IN IF ~name.found \/ ~data.found
         THEN [ret |-> "fail", r |-> [r EXCEPT !.appended = FALSE]]
         ELSE [ret |-> "more",
               r |-> [r EXCEPT
                        !.appended = TRUE,
                        !.headers = Append(@,
                            [name |-> name.tok,
                             data |-> chomp(skip_whitespace(data.tok))])]]

(***************************************************************************)
(* The filesystem.  A node is the sequence of names from "/" down to it; a *)
(* name is a C string.  The state variable fs holds what varies between    *)
(* layouts: where the symlink /w/l points, whether the sibling directory   *)
(* /w2 of the root exists, whether /w/f carries execute permission, the    *)
(* name of the regular file kept in /w and in /w/d.h, the lines of the     *)
(* mime rules file (NoFile when it cannot be opened), and the bytes every  *)
(* regular file holds.                                                     *)
(***************************************************************************)
nW == <<"w">>
nW2 == <<"w", "2">>
nD == <<"d">>
nE == <<"e">>
nF == <<"f">>
nL == <<"l">>
nP == <<"p">>
nS == <<"s">>
nZ == <<"z">>
nI == <<"i", ".", "h">>
nDH == <<"d", ".", "h">>

\* A file that cannot be opened.
NoFile == <<NULL>>

\* A file of n bytes, each different from its neighbours.
Bytes(n) == [i \in 1..n |-> i % 256]

\* RootPath after main's realpath(RootPath, buffer): canonical, absolute.
RootNode == <<nW>>

Missing == [kind |-> "none", x |-> FALSE]

Lookup(f, node) ==
    CASE node = <<>> -> [kind |-> "dir", x |-> TRUE]
      [] node = <<nW>> -> [kind |-> "dir", x |-> TRUE]
      [] node = <<nW, nD>> -> [kind |-> "dir", x |-> TRUE]
      [] node = <<nW, nD, nF>> -> [kind |-> "reg", x |-> FALSE]
      [] node = <<nW, nF>> -> [kind |-> "reg", x |-> f.fx]
      [] node = <<nW, nP>> -> [kind |-> "other", x |-> f.fx]
      [] node = <<nW, nL>> -> [kind |-> "link", x |-> TRUE]
      [] node = <<nE>> -> [kind |-> "dir", x |-> TRUE]
      [] node = <<nE, nS>> -> [kind |-> "reg", x |-> FALSE]
      [] node = <<nW2>> /\ f.sib -> [kind |-> "dir", x |-> TRUE]
      [] node = <<nW2, nS>> /\ f.sib -> [kind |-> "reg", x |-> FALSE]
      [] node = <<nW, f.name>> -> [kind |-> "reg", x |-> FALSE]
      [] node = <<nW, nDH>> -> [kind |-> "dir", x |-> TRUE]
      [] node = <<nW, nDH, f.name>> -> [kind |-> "reg", x |-> FALSE]
      [] OTHER -> Missing

LinkTargets == {<<nW, nF>>, <<nW, nD>>, <<nE>>, <<nW2>>, <<nW, nZ>>}

\* The rules file and the file contents of the layouts that do not vary them:
\* one rule, and a file of one full chunk and a partial one.
PlainRules == << <<"t", " ", "h", "\n">> >>

PlainData == Bytes(BUFSIZ + 1)

Layouts ==
    [link : LinkTargets, sib : BOOLEAN, fx : BOOLEAN,
     name : {nI}, mime : {PlainRules}, data : {PlainData}]

\* The layout the specifications that do not study the resolver run on.
PlainLayout ==
    [link |-> <<nW, nF>>, sib |-> FALSE, fx |-> FALSE,
     name |-> nI, mime |-> PlainRules, data |-> PlainData]

\* The text of a node's canonical path.
RECURSIVE Render(_)
Render(node) ==
    IF node = <<>> THEN <<>>
    ELSE <<"/">> \o Head(node) \o Render(Tail(node))

PathText(node) == IF node = <<>> THEN <<"/">> ELSE Render(node)

\* The segments of a path text between its "/" characters.
RECURSIVE Split(_)
Split(s) ==
    LET i == Strchr(s, "/")
    IN IF i = 0 THEN <<s>>
       ELSE <<SubSeq(s, 1, i - 1)>> \o Split(SubSeq(s, i + 1, Len(s)))

\* realpath(3) from the node cur on the segments left: "" and "." stay, ".."
\* goes up, a name must exist, a symlink is followed, and anything but the
\* last segment must be a directory.  NoNode when resolution fails.
RECURSIVE Walk(_, _, _)
Walk(f, cur, segs) ==
    IF segs = <<>> THEN cur
    ELSE
      LET seg == Head(segs)
          rest == Tail(segs)
      IN IF seg = <<>> \/ seg = <<".">> THEN Walk(f, cur, rest)
         ELSE IF seg = <<".", ".">>
         THEN Walk(f, IF cur = <<>> THEN <<>> ELSE SubSeq(cur, 1, Len(cur) - 1), rest)
         ELSE
           LET named == Append(cur, seg)
               node == IF Lookup(f, named).kind = "link" THEN f.link ELSE named
               kind == Lookup(f, node).kind
           IN IF kind = "none" THEN NoNode
              ELSE IF kind # "dir" /\ rest # <<>> THEN NoNode
              ELSE Walk(f, node, rest)

realpath(f, text) ==
    LET node == Walk(f, <<>>, Split(text))
    IN IF node = NoNode THEN NULL ELSE PathText(node)

(***************************************************************************)
(* utils.c: determine_request_path.                                        *)
(***************************************************************************)
RootPath == PathText(RootNode)

determine_request_path(f, uri) ==
    LET path == realpath(f, RootPath \o uri)
    IN IF path = NULL THEN NULL
       ELSE IF IsPrefix(RootPath, path) THEN path
       ELSE NULL

(***************************************************************************)
(* utils.c: determine_mimetype.                                            *)
(***************************************************************************)
DefaultMimeType == <<"t", "e", "x", "t", "/", "p", "l", "a", "i", "n">>

streq(a, b) == a = b

\* strrchr(s, c): index of the last c in s, 0 when there is none.
Strrchr(s, c) ==
    LET idx == {i \in 1..Len(s) : s[i] = c}
    IN IF idx = {} THEN 0 ELSE Max(idx)

\* Lines 41-46: ext points just after the first '.' found from the last '/'
\* on; NULL when there is none.  path is canonical, so it holds a '/'.
MimeExt(path) ==
    LET name == SubSeq(path, Strrchr(path, "/"), Len(path))
        dot == Strchr(name, ".")
    IN IF dot = 0 THEN NULL ELSE SubSeq(name, dot + 1, Len(name))

\* MimeScan with the extension looked for among all the fields after the first.
RECURSIVE MimeScanAnyField(_, _)
MimeScanAnyField(lines, ext) ==
    IF lines = <<>> THEN DefaultMimeType
    ELSE
      LET buffer == Head(lines)
          fields == Fields(buffer)
      IN IF buffer[1] = "#" \/ buffer[1] = "\n"
         THEN MimeScanAnyField(Tail(lines), ext)
         ELSE IF \E k \in 2..Len(fields) : fields[k] = ext THEN fields[1]
         ELSE MimeScanAnyField(Tail(lines), ext)

\* Lines 57-73: the lines fgets delivers, in order.  A line that starts with
\* '#' or '\n' is skipped; otherwise the second strtok token is compared with
\* ext, and on a match the buffer, which strtok has cut after its first
\* token, is tokenized again and that token returned.
RECURSIVE MimeScan(_, _)
MimeScan(lines, ext) ==
    IF lines = <<>> THEN DefaultMimeType
    ELSE
      LET buffer == Head(lines)
          first == Strtok(buffer, WHITESPACE)
          token == IF first.found THEN Strtok(first.rest, WHITESPACE) ELSE first
          cut == SubSeq(buffer, 1, Len(buffer) - Len(first.rest) - 1)
      IN IF buffer[1] = "#" \/ buffer[1] = "\n"
         THEN MimeScan(Tail(lines), ext)
         ELSE IF token.found /\ streq(token.tok, ext)
         THEN Strtok(cut, WHITESPACE).tok
         ELSE MimeScan(Tail(lines), ext)

\* What happens to a handle: fopen or popen gave it (op = "open"), or fclose
\* or pclose released it (op = "close"); h is "file", "mime" or "pipe".
HandleEv(op, h) == [op |-> op, h |-> h]

\* determine_mimetype with the extension taken after the last '.'.
determine_mimetype_lastdot(path, rules) ==
    LET name == SubSeq(path, Strrchr(path, "/"), Len(path))
        dot == Strrchr(name, ".")
    IN IF dot = 0
       THEN [mimetype |-> DefaultMimeType, opened |-> FALSE, handles |-> <<>>]
       ELSE IF rules = NoFile
       THEN [mimetype |-> DefaultMimeType, opened |-> TRUE, handles |-> <<>>]
       ELSE [mimetype |-> MimeScan(rules, SubSeq(name, dot + 1, Len(name))),
             opened |-> TRUE,
             handles |-> <<HandleEv("open", "mime"), HandleEv("close", "mime")>>]

\* determine_mimetype without the fclose of line 65, on the return of a match.
determine_mimetype_leak(path, rules) ==
    LET ext == MimeExt(path)
    IN IF ext = NULL
       THEN [mimetype |-> DefaultMimeType, opened |-> FALSE, handles |-> <<>>]
       ELSE IF rules = NoFile
       THEN [mimetype |-> DefaultMimeType, opened |-> TRUE, handles |-> <<>>]
       ELSE [mimetype |-> MimeScan(rules, ext), opened |-> TRUE,
             handles |->
                 IF MimeScan(rules, ext) = DefaultMimeType
                 THEN <<HandleEv("open", "mime"), HandleEv("close", "mime")>>
                 ELSE <<HandleEv("open", "mime")>>]

\* The string returned, whether fopen(MimeTypesPath) was called, and what
\* became of the handle it gave: none when it failed, otherwise the fclose of
\* line 65 (a match) or of line 72 (the end of the file).
determine_mimetype(path, rules) ==
    LET ext == MimeExt(path)
    IN IF ext = NULL
       THEN [mimetype |-> DefaultMimeType, opened |-> FALSE, handles |-> <<>>]
       ELSE IF rules = NoFile
       THEN [mimetype |-> DefaultMimeType, opened |-> TRUE, handles |-> <<>>]
       ELSE [mimetype |-> MimeScan(rules, ext), opened |-> TRUE,
             handles |-> <<HandleEv("open", "mime"), HandleEv("close", "mime")>>]

\* The node a canonical path text names.
NodeOf(path) == SelectSeq(Split(path), LAMBDA seg : seg # <<>>)

(***************************************************************************)
(* handler.c: handle_request after the path is resolved.                   *)
(***************************************************************************)
\* Strategy with the regular-file test ahead of the execute-permission test.
StrategyRegFirst(st, xok) ==
    IF st = "dir" THEN "browse"
    ELSE IF st = "reg" THEN "file"
    ELSE IF xok THEN "cgi"
    ELSE "bad"

\* Strategy without its last test: whatever is not a directory and not
\* executable is served as a file.
StrategyNoKind(st, xok) ==
    IF st = "dir" THEN "browse"
    ELSE IF xok THEN "cgi"
    ELSE "file"

\* Lines 54-72: which branch the stat result and access(path, X_OK) select.
Strategy(st, xok) ==
    IF st = "dir" THEN "browse"
    ELSE IF xok THEN "cgi"
    ELSE IF st = "reg" THEN "file"
    ELSE "bad"

\* The characters of file names in the order of their codes, which is the
\* order strcoll gives in the "C" locale the server runs in.
Ascii == <<".", "2", "d", "e", "f", "g", "h", "i", "l", "p", "s", "w", "z">>

Ord(c) == CHOOSE i \in 1..Len(Ascii) : Ascii[i] = c

\* strcoll(a, b) < 0.
RECURSIVE StrLess(_, _)
StrLess(a, b) ==
    IF b = <<>> THEN FALSE
    ELSE IF a = <<>> THEN TRUE
    ELSE IF Head(a) # Head(b) THEN Ord(Head(a)) < Ord(Head(b))
    ELSE StrLess(Tail(a), Tail(b))

\* The names a directory can hold in some layout.
EntryNames(f) == {nD, nDH, nE, nF, nL, nP, nS, nW, nW2, nZ, f.name}

\* scandir(path, &entries, 0, alphasort): ".", ".." and the names present,
\* sorted.
scandir(f, node) ==
    LET names == {<<".">>, <<".", ".">>}
                   \cup {n \in EntryNames(f) : Lookup(f, Append(node, n)).kind # "none"}
    IN [k \in 1..Cardinality(names) |->
          CHOOSE x \in names : Cardinality({y \in names : StrLess(y, x)}) = k - 1]

\* One list item: the link target and the text shown.
Item(href, name) == [href |-> href, name |-> name]

\* BrowseItems without the branch for the URI "/".
RECURSIVE BrowseItemsPlain(_, _)
BrowseItemsPlain(uri, entries) ==
    IF entries = <<>> THEN <<>>
    ELSE
      LET name == Head(entries)
          rest == BrowseItemsPlain(uri, Tail(entries))
      IN IF ~streq(name, <<".">>)
         THEN <<Item(uri \o <<"/">> \o name, name)>> \o rest
         ELSE rest

\* Lines 106-123: the list items written for the entries, in their order.
RECURSIVE BrowseItems(_, _)
BrowseItems(uri, entries) ==
    IF entries = <<>> THEN <<>>
    ELSE
      LET name == Head(entries)
          rest == BrowseItems(uri, Tail(entries))
      IN IF ~streq(name, <<".">>) /\ ~streq(uri, <<"/">>)
         THEN <<Item(uri \o <<"/">> \o name, name)>> \o rest
         ELSE IF streq(uri, <<"/">>)
         THEN IF ~streq(name, <<".">>)
              THEN <<Item(<<"/">> \o name, name)>> \o rest
              ELSE rest
         ELSE rest

\* handle_browse_request: scandir fails and nothing is written, or the 200
\* head and the listing.
handle_browse_request(r, envok) ==
    IF ~envok THEN [status |-> "NOT_FOUND", r |-> r]
    ELSE [status |-> "OK",
          r |-> [Open(r) EXCEPT
                   !.out = Append(@, RespHead("200 OK", "text/html", "browse")),
                   !.listing = @ \o BrowseItems(r.uri, scandir(fs, NodeOf(r.path)))]]

\* CopyChunks that ends at the first chunk fread does not fill.
RECURSIVE CopyFullChunks(_, _)
CopyFullChunks(data, written) ==
    LET nread == Min({BUFSIZ, Len(data)})
    IN IF nread = BUFSIZ
       THEN CopyFullChunks(SubSeq(data, nread + 1, Len(data)),
                           written \o SubSeq(data, 1, nread))
       ELSE written

\* Lines 165-169: fread up to BUFSIZ bytes and fwrite what was read, until
\* fread delivers nothing.  data is what is left of the file.
RECURSIVE CopyChunks(_, _)
CopyChunks(data, written) ==
    LET nread == Min({BUFSIZ, Len(data)})
    IN IF nread > 0
       THEN CopyChunks(SubSeq(data, nread + 1, Len(data)),
                       written \o SubSeq(data, 1, nread))
       ELSE written

\* handle_file_request: fopen fails, or the 200 head with the Content-Type
\* determine_mimetype gives and the file's bytes.
handle_file_request(r, envok) ==
    IF ~envok THEN [status |-> "NOT_FOUND", r |-> r]
    ELSE
      LET m == determine_mimetype(r.path, fs.mime)
      IN [status |-> "OK",
          r |-> [Open(r) EXCEPT
                   !.out = Append(@, RespHead("200 OK", "mimetype", "file")),
                   !.mimetype = m.mimetype,
                   !.mimeopen = m.opened,
                   !.body = CopyChunks(fs.data, @),
                   !.handles = @ \o <<HandleEv("open", "file")>> \o m.handles
                                  \o <<HandleEv("close", "file")>>]]

\* Lines 209-217: the nine variables exported whatever the query.
CgiExports(r) ==
    <<<<"SCRIPT_FILENAME", r.uri>>, <<"REQUEST_METHOD", r.method>>,
      <<"REMOTE_ADDR", r.host>>, <<"REQUEST_URI", r.uri>>,
      <<"REMOTE_PORT", r.port>>, <<"DOCUMENT_ROOT", r.path>>,
      <<"SERVER_PORT", r.port>>, <<"HTTP_HOST", r.host>>,
      <<"HTTP_USER_AGENT", r.uri>>>>

\* handle_cgi_request that exports QUERY_STRING only for a query that is not
\* empty.
handle_cgi_request_noempty(r, envok) ==
    LET r1 == [r EXCEPT
                 !.setenv = @ \o (IF r.query # NULL /\ r.query # <<>>
                                  THEN <<<<"QUERY_STRING", r.query>>>> ELSE <<>>)
                              \o CgiExports(r)]
    IN IF ~envok THEN [status |-> "INTERNAL_SERVER_ERROR", r |-> r1]
       ELSE [status |-> "OK",
             r |-> [Open(r1) EXCEPT
                      !.out = Append(@, RespHead("script", "script", "cgi")),
                      !.handles = @ \o <<HandleEv("open", "pipe"),
                                         HandleEv("close", "pipe")>>]]

\* handle_cgi_request: the setenv calls (QUERY_STRING only when r->query is
\* not null), then popen fails, or the script's output is copied verbatim
\* and the pipe closed by pclose.
handle_cgi_request(r, envok) ==
    LET r1 == [r EXCEPT
                 !.setenv = @ \o (IF r.query # NULL
                                  THEN <<<<"QUERY_STRING", r.query>>>> ELSE <<>>)
                              \o CgiExports(r)]
    IN IF ~envok THEN [status |-> "INTERNAL_SERVER_ERROR", r |-> r1]
       ELSE [status |-> "OK",
             r |-> [Open(r1) EXCEPT
                      !.out = Append(@, RespHead("script", "script", "cgi")),
                      !.handles = @ \o <<HandleEv("open", "pipe"),
                                         HandleEv("close", "pipe")>>]]

\* Lines 54-74 with the strategies they call.
Dispatch(r, st, xok, envok) ==
    LET strat == Strategy(st, xok)
        r1 == [r EXCEPT !.invoked = Append(@, strat)]
        s == CASE strat = "browse" -> handle_browse_request(r1, envok)
               [] strat = "cgi" -> handle_cgi_request(r1, envok)
               [] strat = "file" -> handle_file_request(r1, envok)
               [] OTHER -> [status |-> "BAD_REQUEST", r |-> r]
    IN IF s.status # "OK"
       THEN [handle_error(s.r, s.status) EXCEPT !.result = s.status]
       ELSE [s.r EXCEPT !.result = "OK"]

\* Lines 33-37 and 41-45: the error response and the return.
Reject(r, status) ==
    [handle_error(r, status) EXCEPT !.pc = "handled", !.result = status]

(***************************************************************************)
(* request.c: free_request.                                                *)
(***************************************************************************)
free_request(r) ==
    IF r.null THEN r
    ELSE [r EXCEPT
            !.closes = IF r.stream # "null" THEN @ + 1 ELSE @,
            !.stream = IF @ # "null" THEN "closed" ELSE @,
            !.frees = @ + 1,
            !.method = NULL, !.uri = NULL, !.query = NULL, !.path = NULL,
            !.headers = <<>>, !.buffer = <<>>]

(***************************************************************************)
(* The processes.                                                          *)
(***************************************************************************)
Conns == 1..MaxConn
Procs == 0..MaxConn

\* Process p is inside handle_request: the control process of single_server,
\* or a forked child.
Runs(p) == IF p = 0 THEN mode = "single" /\ cpc = "handle" ELSE TRUE

\* The descriptors of a process that ends are closed by the system.
Drop(p) == [c \in Conns |-> socks[c] \ {p}]

UnitStep(p, u) ==
    /\ units' = [units EXCEPT ![p] = u]
    /\ socks' = IF u.pc = "crashed" THEN Drop(p) ELSE socks

\* fgets: the line the client sent, or EOFLINE once its input has ended; a
\* line without its "\n" is the last of the input.
Fgets(r, line) ==
    [Open(r) EXCEPT !.buffer = line,
                    !.eof = (line = EOFLINE) \/ line[Len(line)] # "\n"]

\* handle_request up to the end of parse_request_method (lines 33-37).  A null
\* Request faults at its first use, r->stream.
ParseMethod(p, Lines) ==
    /\ Runs(p)
    /\ units[p].pc = "parse_method"
    /\ IF units[p].null
       THEN UnitStep(p, [units[p] EXCEPT !.pc = "crashed"])
       ELSE \E line \in Lines :
              \E o \in parse_request_method(Fgets(units[p], line), line) :
                 UnitStep(p,
                     CASE o.ret = "ok" -> [o.r EXCEPT !.pc = "parse_headers"]
                       [] o.ret = "fail" -> Reject(o.r, "BAD_REQUEST")
                       [] OTHER -> [o.r EXCEPT !.pc = "crashed"])
    /\ UNCHANGED <<mode, cpc, nconn, fs, environ>>

\* One header line read by parse_request_headers; the client sends at most
\* MaxHeaders lines before it ends the block.
ParseHeaders(p, Lines) ==
    /\ Runs(p)
    /\ units[p].pc = "parse_headers"
    /\ \E line \in (IF units[p].eof THEN {EOFLINE} ELSE Lines) :
         /\ units[p].nlines >= MaxHeaders => (line = EOFLINE \/ Len(line) <= 2)
         /\ LET o == parse_header_line(
                       [Fgets(units[p], line) EXCEPT !.nlines = @ + 1], line)
            IN UnitStep(p,
                CASE o.ret = "more" -> o.r
                  [] o.ret = "ok" -> [o.r EXCEPT !.pc = "resolve"]
                  [] OTHER -> Reject(o.r, "BAD_REQUEST"))
    /\ UNCHANGED <<mode, cpc, nconn, fs, environ>>

\* handle_request lines 40-45.
Resolve(p) ==
    /\ Runs(p)
    /\ units[p].pc = "resolve"
    /\ LET path == determine_request_path(fs, units[p].uri)
           r == [units[p] EXCEPT !.path = path]
       IN UnitStep(p, IF path = NULL THEN Reject(r, "NOT_FOUND")
                      ELSE [r EXCEPT !.pc = "classify"])
    /\ UNCHANGED <<mode, cpc, nconn, fs, environ>>

\* handle_request lines 49-76.  The file may have been removed since it was
\* resolved (gone): stat then fails, the error response is written, and the
\* branches read an uninitialized st_mode (garbage).  envok is whether the
\* strategy's scandir, fopen or popen succeeds.  What handle_cgi_request
\* passed to setenv stays in the environment of the process.
Classify(p) ==
    /\ Runs(p)
    /\ units[p].pc = "classify"
    /\ \E gone \in BOOLEAN, envok \in BOOLEAN, garbage \in {"dir", "reg", "other"} :
         LET n == Lookup(fs, NodeOf(units[p].path))
             st == IF gone THEN garbage ELSE n.kind
             xok == ~gone /\ n.x
             r == [units[p] EXCEPT !.stat = IF gone THEN "fail" ELSE n.kind,
                                   !.xok = xok]
             r1 == IF gone THEN handle_error(r, "NOT_FOUND") ELSE r
             d == Dispatch(r1, st, xok, envok /\ ~gone)
         IN /\ UnitStep(p, [d EXCEPT !.pc = "handled"])
            /\ environ' = [environ EXCEPT ![p] = Setenv(@, d.setenv)]
    /\ UNCHANGED <<mode, cpc, nconn, fs>>

(***************************************************************************)
(* request.c: accept_request.  how = "ok", or the call that failed:        *)
(* accept, getnameinfo (lookup) or fdopen; on failure the partly built     *)
(* Request is freed and NULL is returned.  single.c lines 18-24 and        *)
(* forking.c line 24 continue from the result.                             *)
(***************************************************************************)
accept_request(c, how) ==
    IF how = "ok"
    THEN [NoRequest EXCEPT !.pc = "parse_method", !.null = FALSE,
                           !.stream = "open", !.conn = c,
                           !.host = ClientHost(c), !.port = ClientPort(c)]
    ELSE [NoRequest EXCEPT !.conn = c]

\* Accept where a failed accept_request ends the server in both modes.
AcceptFatal ==
    /\ cpc = "accept"
    /\ nconn < MaxConn
    /\ \E how \in {"ok", "accept", "lookup", "fdopen"} :
         LET c == nconn + 1
             exits == how # "ok"
         IN /\ units' = [units EXCEPT ![0] = accept_request(c, how)]
            /\ socks' = IF exits THEN Drop(0)
                        ELSE [socks EXCEPT ![c] = IF how = "accept" THEN {} ELSE {0}]
            /\ cpc' = IF exits THEN "exited"
                      ELSE IF mode = "single" THEN "handle" ELSE "fork"
    /\ nconn' = nconn + 1
    /\ UNCHANGED <<mode, fs, environ>>

Accept ==
    /\ cpc = "accept"
    /\ nconn < MaxConn
    /\ \E how \in {"ok", "accept", "lookup", "fdopen"} :
         LET c == nconn + 1
             exits == mode = "single" /\ how # "ok"
         IN /\ units' = [units EXCEPT ![0] = accept_request(c, how)]
            /\ socks' = IF exits THEN Drop(0)
                        ELSE [socks EXCEPT ![c] = IF how = "accept" THEN {} ELSE {0}]
            /\ cpc' = IF exits THEN "exited"
                      ELSE IF mode = "single" THEN "handle" ELSE "fork"
    /\ nconn' = nconn + 1
    /\ UNCHANGED <<mode, fs, environ>>

\* SingleFree that loops back to accept without free_request.
SingleLoopNoFree ==
    /\ mode = "single"
    /\ cpc = "handle"
    /\ units[0].pc = "handled"
    /\ cpc' = "accept"
    /\ UNCHANGED <<mode, nconn, units, socks, fs, environ>>

\* single.c lines 28-31: handle_request has returned; free the Request.
SingleFree ==
    /\ mode = "single"
    /\ cpc = "handle"
    /\ units[0].pc = "handled"
    /\ units' = [units EXCEPT ![0] = [free_request(@) EXCEPT !.pc = "done"]]
    /\ socks' = [socks EXCEPT ![units[0].conn] = @ \ {0}]
    /\ cpc' = "accept"
    /\ UNCHANGED <<mode, nconn, fs, environ>>

\* forking.c lines 27-29: SIGCHLD ignored, fork.  The child is a copy of the
\* parent, descriptors included; a failed fork (pid = -1) leaves no child.
Fork ==
    /\ mode = "forking"
    /\ cpc = "fork"
    /\ \E forked \in BOOLEAN :
         IF forked
         THEN /\ units' = [units EXCEPT ![nconn] =
                              [units[0] EXCEPT !.pc = "parse_method"]]
              /\ socks' = [c \in Conns |->
                              IF 0 \in socks[c] THEN socks[c] \cup {nconn}
                              ELSE socks[c]]
              /\ environ' = [environ EXCEPT ![nconn] = environ[0]]
         ELSE UNCHANGED <<units, socks, environ>>
    /\ cpc' = "pfree"
    /\ UNCHANGED <<mode, nconn, fs>>

\* ParentFree that first waits for the child it forked to end.
ParentFreeWaits ==
    /\ mode = "forking"
    /\ cpc = "pfree"
    /\ units[nconn].pc \in {"none", "done", "crashed"}
    /\ units' = [units EXCEPT ![0] = [free_request(@) EXCEPT !.pc = "done"]]
    /\ socks' = IF units[0].null THEN socks
                ELSE [socks EXCEPT ![units[0].conn] = @ \ {0}]
    /\ cpc' = "accept"
    /\ UNCHANGED <<mode, nconn, fs, environ>>

\* forking.c lines 33-36: the parent frees its copy and loops.
ParentFree ==
    /\ mode = "forking"
    /\ cpc = "pfree"
    /\ units' = [units EXCEPT ![0] = [free_request(@) EXCEPT !.pc = "done"]]
    /\ socks' = IF units[0].null THEN socks
                ELSE [socks EXCEPT ![units[0].conn] = @ \ {0}]
    /\ cpc' = "accept"
    /\ UNCHANGED <<mode, nconn, fs, environ>>

\* What is left to tell of a process that has exited: how often it freed its
\* Request and closed the stream, and whether it used the stream after close.
Exited(r) ==
    [NoRequest EXCEPT !.pc = "done", !.null = r.null, !.conn = r.conn,
                      !.stream = r.stream, !.frees = r.frees,
                      !.closes = r.closes, !.badio = r.badio]

\* forking.c lines 30-32 after handle_request: free_request and exit.
ChildExit(p) ==
    /\ p # 0
    /\ units[p].pc = "handled"
    /\ units' = [units EXCEPT ![p] = Exited(free_request(@))]
    /\ socks' = Drop(p)
    /\ environ' = [environ EXCEPT ![p] = NoEnv]
    /\ UNCHANGED <<mode, cpc, nconn, fs>>

(***************************************************************************)
(* What clients send.                                                      *)
(***************************************************************************)
Lf == <<"\n">>
CrLf == <<"\r", "\n">>

\* Request lines with no method or no request-target.
BadReqLines ==
    {Lf, CrLf, <<" ">> \o Lf, <<" ", " ">>, <<"G">> \o Lf, <<"G", " ">> \o CrLf,
     <<"G">>}

Targets == SeqsOf({"/", "f", "p", "?"}, 1, MaxTargetLen)

ReqLines ==
    {<<"G", " ">> \o t \o e : t \in Targets, e \in {Lf, <<" ", "H">> \o CrLf, <<>>}}
        \cup {<<" ", "G", " ", "/", "f">> \o Lf, EOFLINE} \cup BadReqLines

HdrLines ==
    {b \o e : b \in SeqsOf({"h", ":", " "}, 1, MaxHdrLen), e \in {Lf, CrLf}}
        \cup {Lf, CrLf, EOFLINE, <<"h", ":", " ", "h", ":", "8">> \o CrLf,
              <<"h", ":", "h">>}

FewReqLines == {<<"G", " ", "/", "f", " ", "H">> \o CrLf, <<" ">> \o Lf, <<"G">> \o Lf}

FewHdrLines == {<<"h", ":", " ", "v">> \o CrLf, CrLf, EOFLINE}

\* The clients of the server as a whole: a well-formed request, a request line
\* of whitespace, and a client that closes before sending anything.
ServerReqLines == {<<"G", " ", "/", "f", " ", "H">> \o CrLf, <<" ">> \o Lf, EOFLINE}

\* Each of them sends at most one header before it ends the block.
ServerHdrLines(p) ==
    IF units[p].nlines = 0 THEN {<<"h", ":", " ", "v">> \o CrLf, CrLf} ELSE {CrLf}

RECURSIVE JoinSegs(_)
JoinSegs(segs) ==
    IF segs = <<>> THEN <<>>
    ELSE IF Len(segs) = 1 THEN Head(segs)
    ELSE Head(segs) \o <<"/">> \o JoinSegs(Tail(segs))

SegNames == {<<".", ".">>, nD, nF, nL, nW2, <<"2">>, nE, nS}

Uris ==
    {lead \o JoinSegs(segs) :
        lead \in {<<>>, <<"/">>}, segs \in SeqsOf(SegNames, 0, MaxSegs)}

PathReqLines == {<<"G", " ">> \o uri \o Lf : uri \in Uris}

PathHdrLines == ServerHdrLines(0)

RECURSIVE Concat(_)
Concat(parts) == IF parts = <<>> THEN <<>> ELSE Head(parts) \o Concat(Tail(parts))

\* File names: "i" and up to MaxDots parts that start with a dot.
FileNames ==
    {<<"i">> \o Concat(parts) :
        parts \in SeqsOf({<<".", "h">>, <<".", "g">>, <<".">>}, 0, MaxDots)}

\* Lines of a mime rules file.  Only the last line of a file can lack "\n".
RuleLines ==
    {<<"t", " ", "h", "\n">>,
     <<"u", " ", "h", "\n">>,
     <<"v", " ", "g", " ", "h", "\n">>,
     <<"#", "w", " ", "h", "\n">>,
     <<"\n">>,
     <<"x", "\n">>,
     <<" ", "y", " ", "h", "\n">>,
     <<"z", "\t", "h", "\r", "\n">>,
     <<"r", " ", "h", "h", "\n">>,
     <<"q", " ", "g", ".", "h", "\n">>,
     <<"s", " ", "h">>}

RulesFiles ==
    {NoFile} \cup
    {rules \in SeqsOf(RuleLines, 0, MaxRules) :
        \A k \in 1..(Len(rules) - 1) : rules[k][Len(rules[k])] = "\n"}

FewRulesFiles ==
    {NoFile, PlainRules, << <<"v", " ", "g", " ", "h", "\n">> >>,
     << <<"q", " ", "g", ".", "h", "\n">>, <<"t", " ", "h", "\n">> >>}

\* Every file name with few rules files, every rules file with the file
\* i.h, files of every length up to MaxData, and /w/f executable.
FileLayouts ==
    {[PlainLayout EXCEPT !.name = n, !.mime = m] :
         n \in FileNames, m \in FewRulesFiles}
    \cup {[PlainLayout EXCEPT !.name = n, !.mime = m] :
         n \in {nI}, m \in RulesFiles}
    \cup {[PlainLayout EXCEPT !.data = Bytes(n)] : n \in 0..MaxData}
    \cup {[PlainLayout EXCEPT !.fx = TRUE]}

\* Requests for the file of the layout, in /w and in /w/d.h, for the
\* directories, and for /w/f, a script where it is executable.
FileUris ==
    {<<"/">> \o fs.name, <<"/">> \o nDH \o <<"/">> \o fs.name,
     <<"/">>, <<"/">> \o nDH, <<"/">> \o nDH \o <<"/">>, <<"/">> \o nD,
     <<"/", "/">>, <<"/">> \o nF}

FileReqLines == {<<"G", " ">> \o uri \o <<" ", "H">> \o CrLf : uri \in FileUris}

\* At most one header before the end of the block.
FileHdrLines == ServerHdrLines(0)

PathLayouts ==
    {f \in Layouts : f.fx => f = [PlainLayout EXCEPT !.fx = TRUE]}

(***************************************************************************)
(* Specifications.                                                         *)
(***************************************************************************)
\* The server from its start, in either mode.
Init ==
    /\ mode \in {"single", "forking"}
    /\ cpc = "accept"
    /\ nconn = 0
    /\ units = [p \in Procs |-> NoRequest]
    /\ socks = [c \in Conns |-> {}]
    /\ fs = PlainLayout
    /\ environ = [p \in Procs |-> NoEnv]

Next ==
    \/ Accept
    \/ SingleFree
    \/ Fork
    \/ ParentFree
    \/ \E p \in Procs :
         \/ ParseMethod(p, ServerReqLines)
         \/ ParseHeaders(p, ServerHdrLines(p))
         \/ Resolve(p)
         \/ Classify(p)
         \/ ChildExit(p)

Spec == Init /\ [][Next]_vars

\* The control process of forking_server runs whenever it can; nothing is
\* assumed of the children or of the clients.
FairSpec == Spec /\ WF_vars(Fork) /\ WF_vars(ParentFree)

\* The steps of the control process after accept; at most one is enabled
\* at a time.
ControlStep == SingleFree \/ Fork \/ ParentFree

\* Process p is inside handle_request, or is a child that has returned from
\* it and not yet exited: one of ParseMethod, ParseHeaders, Resolve, Classify
\* and ChildExit is enabled for it.
Handling(p) ==
    \/ Runs(p) /\ units[p].pc \in {"parse_method", "parse_headers", "resolve", "classify"}
    \/ p # 0 /\ units[p].pc = "handled"

\* Every process runs whenever it can: the clients' input ends, a CGI
\* subprocess terminates, and no process is starved.  The condition on the
\* handling steps is weak fairness written out, a step of process p being
\* one that changes units[p].
LiveSpec ==
    /\ Spec
    /\ WF_vars(ControlStep)
    /\ \A p \in Procs : <>[]Handling(p) => []<><<units'[p] # units[p]>>_vars

\* One handling unit: single_server has just accepted its last connection.
InitUnit(layouts) ==
    /\ mode = "single"
    /\ cpc = "handle"
    /\ nconn = MaxConn
    /\ units = [p \in Procs |->
                   IF p = 0 THEN accept_request(MaxConn, "ok") ELSE NoRequest]
    /\ socks = [c \in Conns |-> IF c = MaxConn THEN {0} ELSE {}]
    /\ fs \in layouts
    /\ environ = [p \in Procs |-> NoEnv]

NextUnit(reqLines, hdrLines) ==
    \/ ParseMethod(0, reqLines)
    \/ ParseHeaders(0, hdrLines)
    \/ Resolve(0)
    \/ Classify(0)
    \/ SingleFree

\* Every request line, few header lines; /w/f with and without execute
\* permission.
SpecMethod ==
    InitUnit({PlainLayout, [PlainLayout EXCEPT !.fx = TRUE]})
        /\ [][NextUnit(ReqLines, FewHdrLines)]_vars

\* The lines of a header block: any line as its first or second, a short
\* line or one of the few after that.
BlockHdrLines ==
    IF units[0].nlines <= 1 THEN HdrLines
    ELSE FewHdrLines \cup {line \in HdrLines : Len(line) <= 2}

\* Few request lines, every header line.
SpecHeaders == InitUnit({PlainLayout}) /\ [][NextUnit(FewReqLines, BlockHdrLines)]_vars

\* Every URI on every filesystem layout.
SpecPath == InitUnit(PathLayouts) /\ [][NextUnit(PathReqLines, PathHdrLines)]_vars

\* Every file name, rules file and file length; requests for the file and
\* for the directories around it.
SpecFile == InitUnit(FileLayouts) /\ [][NextUnit(FileReqLines, FileHdrLines)]_vars

\* The clients of a server whose /w/f is a script: a request for it with a
\* query, one by another method without a query, and a request line of
\* whitespace.
CgiReqLines ==
    {<<"G", " ", "/", "f", "?", "q", " ", "H">> \o CrLf,
     <<"P", " ", "/", "f", " ", "H">> \o CrLf,
     <<" ">> \o Lf}

\* Each client sends one header and then ends the block.
CgiHdrLines(p) ==
    IF units[p].nlines = 0 THEN {<<"h", ":", " ", "v">> \o CrLf} ELSE {CrLf}

\* The environment the server is started in: none of the variables set, or
\* each of them left set by whatever started the server.
StartEnvs == {NoEnv, [v \in CgiVars |-> <<"s">>]}

InitCgi ==
    /\ mode \in {"single", "forking"}
    /\ cpc = "accept"
    /\ nconn = 0
    /\ units = [p \in Procs |-> NoRequest]
    /\ socks = [c \in Conns |-> {}]
    /\ fs = [PlainLayout EXCEPT !.fx = TRUE]
    /\ \E e \in StartEnvs : environ = [p \in Procs |-> IF p = 0 THEN e ELSE NoEnv]

NextCgi ==
    \/ Accept
    \/ SingleFree
    \/ Fork
    \/ ParentFree
    \/ \E p \in Procs :
         \/ ParseMethod(p, CgiReqLines)
         \/ ParseHeaders(p, CgiHdrLines(p))
         \/ Resolve(p)
         \/ Classify(p)
         \/ ChildExit(p)

\* The server in either mode, started in either environment, with /w/f
\* executable.
SpecCgi == InitCgi /\ [][NextCgi]_vars

(***************************************************************************)
(* Claims.                                                                 *)
(***************************************************************************)
Error400 == RespHead("400 Bad Request", "text/html", "error")

\* handle_request answered 400 and returned without resolving or dispatching.
Failed400(r) ==
    /\ r.pc = "handled"
    /\ r.result = "BAD_REQUEST"
    /\ r.out = <<Error400>>
    /\ r.path = NULL
    /\ r.invoked = <<>>

\* C1: root containment.  Whenever determine_request_path has returned a path,
\* the node it names is the root or lies below it component by component, and a
\* URI whose canonical form lies outside the root never yields a path.
C1_RootContainment ==
    \A p \in Procs :
        LET r == units[p]
        IN /\ r.path # NULL => IsPrefix(RootNode, NodeOf(r.path))
           /\ (r.pc \in {"classify", "handled"} /\ r.uri # NULL) =>
                LET canon == Walk(fs, <<>>, Split(RootPath \o r.uri))
                IN (canon # NoNode /\ ~IsPrefix(RootNode, canon)) =>
                      r.path = NULL

\* C2: classification precedence.  When the resolved path still exists at
\* classification, a regular file with execute permission is handed to the CGI
\* strategy and never to the static-file strategy, and a directory is handed to
\* Browse although it carries execute permission.
C2_CgiPrecedence ==
    \A p \in Procs :
        LET r == units[p]
            n == Lookup(fs, NodeOf(r.path))
        IN (r.pc = "handled" /\ r.path # NULL /\ r.stat # "fail") =>
             /\ (n.kind = "reg" /\ n.x) => r.invoked = <<"cgi">>
             /\ n.kind = "dir" => r.invoked = <<"browse">>

C2_Witness ==
    /\ units[0].pc = "handled"
    /\ units[0].path = PathText(<<nW, nF>>)
    /\ fs.fx
    /\ units[0].stat = "reg"
    /\ units[0].invoked = <<"cgi">>

\* C3: request teardown.  In every process, once its work on a Request that
\* accept_request returned is over, free_request has destroyed that Request
\* exactly once; the stream is closed at most once and never used after close.
C3_Teardown ==
    \A p \in Procs :
        LET r == units[p]
        IN /\ (~r.null /\ r.pc \in {"done", "crashed"}) => r.frees = 1
           /\ r.frees <= 1
           /\ r.closes <= 1
           /\ ~r.badio

\* C4: forking isolation.  Whatever the children do (hang, crash, finish), the
\* control loop of forking_server that has accepted a connection gets back to
\* accept.
C4_Isolation ==
    [](mode = "forking" /\ cpc # "accept" => <>(cpc = "accept"))

\* The second connection is handed to a new child while the first child is
\* stuck before its first read or has crashed.
C4_Witness ==
    /\ mode = "forking"
    /\ cpc = "accept"
    /\ nconn = 2
    /\ units[1].pc \in {"parse_method", "crashed"}
    /\ units[2].pc = "parse_headers"

\* C5: sequential strategy.  Under single_server at most one accepted connection
\* is open at any time, and the loop is at accept only when every connection
\* accepted so far is closed and its Request freed.
C5_Sequential ==
    mode = "single" =>
        /\ Cardinality({c \in Conns : socks[c] # {}}) <= 1
        /\ cpc = "accept" =>
             /\ \A c \in Conns : socks[c] = {}
             /\ nconn > 0 => (units[0].frees = 1 /\ units[0].stream = "closed")

C5_Witness ==
    /\ mode = "single"
    /\ nconn = 2
    /\ cpc = "handle"
    /\ socks[1] = {}
    /\ socks[2] = {0}

\* A request line that cannot be read, has no method token, or has a method and
\* no request-target.
NoToken(s) == \A i \in 1..Len(s) : s[i] \in WHITESPACE

RestAfterToken(s) ==
    LET b == Min({i \in 1..Len(s) : s[i] \notin WHITESPACE})
        stop == {i \in b..Len(s) : s[i] \in WHITESPACE}
    IN IF stop = {} THEN <<>> ELSE SubSeq(s, Min(stop), Len(s))

BadRequestLine(line) ==
    \/ line = EOFLINE
    \/ NoToken(line)
    \/ NoToken(RestAfterToken(line))

\* The unit has read its request line and no header line yet.
AfterRequestLine(r) ==
    r.nlines = 0 /\ r.pc \in {"parse_headers", "handled", "crashed"}

\* C6: request-line failure.  After a request line that cannot be read, has no
\* method token or has no request-target, the unit has not faulted: it has
\* written the 400 response and returned, with no path resolved and no strategy
\* invoked.
C6_RequestLineFailure ==
    \A p \in Procs :
        (AfterRequestLine(units[p]) /\ BadRequestLine(units[p].buffer)) =>
            Failed400(units[p])

\* The request-target of a line that has one: its second token.
TargetOf(line) ==
    LET rest == RestAfterToken(line)
        b == Min({i \in 1..Len(rest) : rest[i] \notin WHITESPACE})
        stop == {i \in b..Len(rest) : rest[i] \in WHITESPACE}
    IN SubSeq(rest, b, IF stop = {} THEN Len(rest) ELSE Min(stop) - 1)

\* C7: target split.  After a request line with a method and a request-target,
\* parsing has succeeded, the uri is the target's text before its first "?" and
\* the query is all the text after it (empty when there is no "?"), never null.
C7_TargetSplit ==
    \A p \in Procs :
        LET r == units[p]
        IN (AfterRequestLine(r) /\ ~BadRequestLine(r.buffer)) =>
             LET t == TargetOf(r.buffer)
                 q == Strchr(t, "?")
             IN /\ r.pc = "parse_headers"
                /\ r.query # NULL
                /\ r.uri = IF q = 0 THEN t ELSE SubSeq(t, 1, q - 1)
                /\ r.query = IF q = 0 THEN <<>> ELSE SubSeq(t, q + 1, Len(t))

\* The unit has consumed at least one header line; buffer is the last one.
AfterHeaderLine(r) ==
    r.nlines >= 1 /\ r.pc \in {"parse_headers", "resolve", "classify", "handled"}

NonBlank(line) == line # EOFLINE /\ Len(line) > 2

\* A header line Name: Value with a non-empty name and a value that, past its
\* leading whitespace, starts with a character other than ":".
NameValue(line) ==
    LET c == Strchr(line, ":")
        v == chomp(skip_whitespace(SubSeq(line, c + 1, Len(line))))
    IN c > 1 /\ v # <<>> /\ v[1] # ":"

\* C8: header splitting, on the lines Name: Value.  After such a non-blank
\* line, the line is stored as the newest header, after the headers stored
\* before it: its name is the text before the first ":" and its value all the
\* text after the first ":" (further ":" included), leading whitespace trimmed
\* and line terminator stripped.
C8_HeaderSplit ==
    \A p \in Procs :
        LET r == units[p]
            line == r.buffer
            c == Strchr(line, ":")
        IN (AfterHeaderLine(r) /\ NonBlank(line) /\ NameValue(line)) =>
             /\ r.pc = "parse_headers"
             /\ Len(r.headers) = r.nlines
             /\ r.headers[r.nlines].name = SubSeq(line, 1, c - 1)
             /\ r.headers[r.nlines].data =
                    chomp(skip_whitespace(SubSeq(line, c + 1, Len(line))))

\* C9: header well-formedness.  After a non-blank header line, either the line
\* had a ":" and was appended as a header with a non-empty name free of ":", or
\* parsing failed: the handler answered 400 and nothing was stored for the
\* line.  A line with no ":" always fails.
C9_HeaderWellFormed ==
    \A p \in Procs :
        LET r == units[p]
            line == r.buffer
            stored == /\ r.pc = "parse_headers"
                      /\ Len(r.headers) = r.nlines
                      /\ r.headers[r.nlines].name # <<>>
                      /\ Strchr(r.headers[r.nlines].name, ":") = 0
            failed == Failed400(r) /\ Len(r.headers) = r.nlines - 1
        IN (AfterHeaderLine(r) /\ NonBlank(line)) =>
             IF Strchr(line, ":") = 0 THEN failed ELSE stored \/ failed

C9_Witness ==
    /\ units[0].buffer = <<"h", "h", "h">> \o CrLf
    /\ units[0].nlines = 2
    /\ Len(units[0].headers) = 1
    /\ Failed400(units[0])

\* C10: header block minimum.  parse_request has succeeded only with at least
\* one header collected; when the first line after the request line is blank or
\* the stream has ended, the handler answers 400.
C10_HeaderMinimum ==
    \A p \in Procs :
        LET r == units[p]
        IN /\ r.pc \in {"resolve", "classify"} => Len(r.headers) >= 1
           /\ (AfterHeaderLine(r) /\ r.nlines = 1 /\ ~NonBlank(r.buffer)) =>
                Failed400(r)

C10_Witness ==
    /\ units[0].method = <<"G">>
    /\ units[0].uri = <<"/", "f">>
    /\ units[0].nlines = 1
    /\ units[0].buffer = CrLf
    /\ Failed400(units[0])

Error404 == RespHead("404 Not Found", "text/html", "error")

\* The node the request-target of r names below the root, NoNode if none.
TargetNode(r) == Walk(fs, <<>>, Split(RootPath \o r.uri))

\* C11: resolution failure.  Whenever handle_request has parsed a request and
\* determine_request_path returns no path for its target, the step that
\* follows writes exactly the 404 Not Found error response, records no
\* strategy as invoked, and returns NOT_FOUND.
C11_ResolutionFailure ==
    [][\A p \in Procs :
         (/\ units[p].pc = "resolve"
          /\ determine_request_path(fs, units[p].uri) = NULL
          /\ units'[p] # units[p])
         => /\ units'[p].pc = "handled"
            /\ units'[p].result = "NOT_FOUND"
            /\ units'[p].out = <<Error404>>
            /\ units'[p].invoked = <<>>]_vars

\* Both causes have been answered: a target that does not exist, and one
\* that exists outside the root.
C11_Witness ==
    LET r == units[0]
    IN /\ r.pc = "handled"
       /\ r.result = "NOT_FOUND"
       /\ r.out = <<Error404>>
       /\ r.uri # NULL
       /\ TargetNode(r) # NoNode
       /\ ~IsPrefix(RootNode, TargetNode(r))

C11_WitnessMissing ==
    LET r == units[0]
    IN /\ r.pc = "handled"
       /\ r.result = "NOT_FOUND"
       /\ r.uri # NULL
       /\ TargetNode(r) = NoNode

\* handle_request classified a path that stat reports as neither a directory
\* nor a regular file.
BadKind(r) == r.pc = "handled" /\ r.stat = "other"

\* handle_request invoked no strategy and answered 400 Bad Request.
Answered400(r) ==
    /\ r.invoked = <<>>
    /\ r.out = <<Error400>>
    /\ r.result = "BAD_REQUEST"

\* C12 as stated: every resolved path that is neither a directory nor a
\* regular file, whatever its permission bits, is answered 400 Bad Request
\* with no strategy invoked.
C12_BadKindAnyBits ==
    \A p \in Procs : BadKind(units[p]) => Answered400(units[p])

\* C12: every resolved path that is neither a directory nor a regular file,
\* and that the server may not execute, is answered 400 Bad Request with no
\* strategy invoked.
C12_BadKind ==
    \A p \in Procs :
        BadKind(units[p]) /\ ~units[p].xok => Answered400(units[p])

C12_Witness ==
    /\ BadKind(units[0])
    /\ ~units[0].xok
    /\ NodeOf(units[0].path) = <<nW, nP>>
    /\ Answered400(units[0])

\* The mime type the rules file gives an extension: the first field of the
\* first line that is not a comment and whose second field is the
\* extension; the default when the file cannot be opened or has no such line.
MimeOf(rules, ext) ==
    IF rules = NoFile THEN DefaultMimeType
    ELSE
      LET hits == {k \in 1..Len(rules) :
                     /\ rules[k][1] # "#"
                     /\ Len(Fields(rules[k])) >= 2
                     /\ Fields(rules[k])[2] = ext}
      IN IF hits = {} THEN DefaultMimeType ELSE Fields(rules[Min(hits)])[1]

\* handle_file_request could not open the file.
FopenFailed(r) == r.invoked = <<"file">> /\ r.result = "NOT_FOUND"

\* handle_request has finished a request for /i.h where /w/i.h is a regular
\* file without execute permission that is still there and readable.
IndexRequest(r) ==
    /\ r.pc = "handled"
    /\ r.method = <<"G">>
    /\ r.uri = <<"/">> \o nI
    /\ fs.name = nI
    /\ r.stat # "fail"
    /\ ~FopenFailed(r)

\* One response: 200, the Content-Type the rules file gives "h", and the
\* bytes of the file.
IndexServed(r) ==
    /\ r.result = "OK"
    /\ r.out = <<RespHead("200 OK", "mimetype", "file")>>
    /\ r.mimetype = MimeOf(fs.mime, <<"h">>)
    /\ r.body = fs.data

\* C13 as stated: a request for /i.h, whatever header block follows the
\* request line, the empty one included, is answered with one 200 response
\* that carries the mapped Content-Type and the file's bytes in order.
C13_StaticFileAnyHeaders ==
    \A p \in Procs : IndexRequest(units[p]) => IndexServed(units[p])

\* C13: a request for /i.h followed by at least one header line and the
\* blank line is answered with one 200 response that carries the mapped
\* Content-Type and the file's bytes in order, whatever the file's length.
C13_StaticFile ==
    \A p \in Procs :
        IndexRequest(units[p]) /\ units[p].headers # <<>> => IndexServed(units[p])

\* A file of more than one chunk whose last chunk is partial has been served.
C13_Witness ==
    /\ IndexRequest(units[0])
    /\ units[0].headers # <<>>
    /\ Len(fs.data) > BUFSIZ
    /\ Len(fs.data) % BUFSIZ # 0
    /\ IndexServed(units[0])

\* handle_file_request has served the file the path names.
FileServed(r) ==
    /\ r.pc = "handled"
    /\ r.stat = "reg"
    /\ r.invoked = <<"file">>
    /\ r.result = "OK"

\* The last segment of a path.
FileName(path) == SubSeq(path, Strrchr(path, "/") + 1, Len(path))

\* C15 as stated: the Content-Type of a served file is what the rules file
\* gives the part of the file name after its last '.'; a file name without
\* '.' gets the default and the rules file is not opened.
C15_LastDotExtension ==
    \A p \in Procs :
        LET r == units[p]
            name == FileName(r.path)
            dot == Strrchr(name, ".")
        IN FileServed(r) =>
             IF dot = 0
             THEN r.mimetype = DefaultMimeType /\ ~r.mimeopen
             ELSE /\ r.mimetype = MimeOf(fs.mime, SubSeq(name, dot + 1, Len(name)))
                  /\ r.mimeopen

Browsed(r) ==
    /\ r.pc = "handled"
    /\ r.stat = "dir"
    /\ r.invoked = <<"browse">>

\* C14: directory listing.  A listing that was written holds one item per
\* entry of the sorted scan other than ".", in that order; the link of an
\* entry is "/" and its name when the URI is "/", and the URI, "/" and its
\* name otherwise.  When the scan fails the strategy writes nothing and
\* NOT_FOUND is returned.
C14_Listing ==
    \A p \in Procs :
        LET r == units[p]
            kept == SelectSeq(scandir(fs, NodeOf(r.path)), LAMBDA n : n # <<".">>)
        IN Browsed(r) =>
             IF r.result = "OK"
             THEN /\ Len(r.listing) = Len(kept)
                  /\ \A k \in 1..Len(kept) :
                       /\ r.listing[k].name = kept[k]
                       /\ r.listing[k].href =
                            IF r.uri = <<"/">> THEN <<"/">> \o kept[k]
                            ELSE r.uri \o <<"/">> \o kept[k]
                  /\ \A j, k \in 1..Len(kept) :
                       j < k => StrLess(r.listing[j].name, r.listing[k].name)
                  /\ r.out = <<RespHead("200 OK", "text/html", "browse")>>
             ELSE /\ r.result = "NOT_FOUND"
                  /\ r.listing = <<>>
                  /\ r.out = <<Error404>>

\* The root directory has been listed for the URI "/": ".." leads the list
\* and the file i.h is among the entries.
C14_Witness ==
    /\ Browsed(units[0])
    /\ units[0].result = "OK"
    /\ units[0].uri = <<"/">>
    /\ units[0].listing[1] = Item(<<"/", ".", ".">>, <<".", ".">>)
    /\ \E k \in 2..Len(units[0].listing) : units[0].listing[k].href = <<"/">> \o nI

C14_WitnessSubdir ==
    /\ Browsed(units[0])
    /\ units[0].result = "OK"
    /\ units[0].uri = <<"/">> \o nDH
    /\ \E k \in 1..Len(units[0].listing) :
         units[0].listing[k].href = <<"/">> \o nDH \o <<"/">> \o nI

C14_WitnessScanFails ==
    /\ Browsed(units[0])
    /\ units[0].result = "NOT_FOUND"

\* C17: a failed accept.  forking_server never terminates, and after
\* accept_request has returned NULL its control loop gets back to accept;
\* single_server returns EXIT_FAILURE at the accept_request that fails.
C17_AcceptFailure ==
    /\ [](mode = "forking" => cpc # "exited")
    /\ [](mode = "forking" /\ cpc = "fork" /\ units[0].null => <>(cpc = "accept"))
    /\ [][mode = "single" /\ nconn' = nconn + 1 /\ units'[0].null
             => cpc' = "exited"]_vars

\* forking_server has accepted a connection after the accept before it
\* failed; the child forked at the failure was handed the null Request.
C17_Witness ==
    /\ mode = "forking"
    /\ nconn = 2
    /\ cpc = "fork"
    /\ units[1].null
    /\ units[1].pc \in {"parse_method", "crashed"}
    /\ ~units[0].null

C17_WitnessSingle ==
    /\ mode = "single"
    /\ cpc = "exited"
    /\ units[0].null

\* The response heads the server itself wrote; what a CGI script printed is
\* not among them.
Generated(r) == SelectSeq(r.out, LAMBDA h : h.by # "cgi")

\* C18: single response per connection.  When handle_request returns, the
\* server has written at most one status line and header block of its own,
\* and that response carries the status handle_request returns.
C18_SingleResponse ==
    \A p \in Procs :
        LET r == units[p]
        IN r.pc = "handled" =>
             /\ Len(Generated(r)) <= 1
             /\ \A k \in 1..Len(Generated(r)) :
                  Generated(r)[k].line = http_status_string(r.result)

\* C19: a handling unit is started only for a successfully accepted
\* connection.  No process is inside handle_request, or has been, with a null
\* Request or with a Request whose stream was never opened.
C19_UnitHasRequest ==
    \A p \in Procs :
        units[p].pc \in {"parse_method", "parse_headers", "resolve", "classify",
                         "handled", "crashed"}
            => ~units[p].null /\ units[p].stream # "null"

\* C20: socket release.  When the control loop is back at accept, the
\* control process holds no client socket open.
C20_SocketRelease ==
    cpc = "accept" => \A c \in Conns : 0 \notin socks[c]

\* The number of events of kind op on handle h among the first k of a log.
CountEv(log, k, op, h) ==
    Cardinality({i \in 1..k : log[i] = HandleEv(op, h)})

\* C21: handle release.  Once handle_request has returned, every file, rules
\* file and pipe handle opened for the request has been closed exactly once:
\* along the log no handle is closed before it is opened or opened again
\* while open, and at the end each has as many closes as opens.
C21_HandleRelease ==
    \A p \in Procs :
        LET log == units[p].handles
        IN \A h \in {"file", "mime", "pipe"} :
             /\ \A k \in 0..Len(log) :
                  /\ CountEv(log, k, "close", h) <= CountEv(log, k, "open", h)
                  /\ CountEv(log, k, "open", h) <= CountEv(log, k, "close", h) + 1
             /\ units[p].pc = "handled" =>
                  CountEv(log, Len(log), "close", h) = CountEv(log, Len(log), "open", h)

\* A file was served whose type a rule of the rules file gave: both handles
\* were opened and closed.
C21_Witness ==
    /\ units[0].pc = "handled"
    /\ units[0].mimetype = <<"t">>
    /\ units[0].handles =
         <<HandleEv("open", "file"), HandleEv("open", "mime"),
           HandleEv("close", "mime"), HandleEv("close", "file")>>

C21_WitnessPipe ==
    /\ units[0].pc = "handled"
    /\ units[0].handles = <<HandleEv("open", "pipe"), HandleEv("close", "pipe")>>

\* C22: eventual teardown.  No handling unit crashes, and every connection
\* that has been accepted is eventually closed in every process.
C22_EventualTeardown ==
    /\ [](\A p \in Procs : units[p].pc # "crashed")
    /\ \A c \in Conns : [](socks[c] # {} => <>(socks[c] = {}))

\* Some process has faulted.
Crashed == \E p \in Procs : units[p].pc = "crashed"

\* What is left of C22 without the faults and without the connections whose
\* Request accept_request did not return: such a connection is closed in
\* every process unless a process faults.
C22_TeardownOtherwise ==
    \A c \in Conns :
        (socks[c] # {} /\ ~units[0].null /\ units[0].conn = c /\ ~Crashed)
            ~> (socks[c] = {} \/ Crashed)

\* The value each variable has for a script run for Request r.
CgiValue(r, v) ==
    CASE v = "QUERY_STRING" -> r.query
      [] v \in {"SCRIPT_FILENAME", "REQUEST_URI", "HTTP_USER_AGENT"} -> r.uri
      [] v = "REQUEST_METHOD" -> r.method
      [] v \in {"REMOTE_ADDR", "HTTP_HOST"} -> r.host
      [] v \in {"REMOTE_PORT", "SERVER_PORT"} -> r.port
      [] v = "DOCUMENT_ROOT" -> r.path

\* Process p has returned from handle_cgi_request.
CgiRan(p) == units[p].pc = "handled" /\ units[p].invoked = <<"cgi">>

\* C23: no cross-connection state.  Whatever the server was started with and
\* whatever connections it handled before, in either mode, each of the ten
\* variables a process has exported for a script has the value given by the
\* Request it is handling, and none is unset.
C23_EnvFromRequest ==
    \A p \in Procs :
        CgiRan(p) =>
            \A v \in CgiVars :
                /\ Getenv(environ[p], v) # NULL
                /\ Getenv(environ[p], v) = CgiValue(units[p], v)

\* The sequential server, started with every variable set, runs the script
\* for its second connection on a request without a query: QUERY_STRING is
\* empty and the addresses are those of the second client.
C23_Witness ==
    /\ mode = "single"
    /\ CgiRan(0)
    /\ units[0].conn = 2
    /\ units[0].result = "OK"
    /\ units[0].query = <<>>
    /\ Getenv(environ[0], "QUERY_STRING") = <<>>
    /\ Getenv(environ[0], "REMOTE_ADDR") = ClientHost(2)

\* Two children of the forking server have run the script, one with a query
\* and one without.
C23_WitnessForking ==
    /\ mode = "forking"
    /\ CgiRan(1) /\ units[1].result = "OK" /\ Getenv(environ[1], "QUERY_STRING") = <<"q">>
    /\ CgiRan(2) /\ units[2].result = "OK" /\ Getenv(environ[2], "QUERY_STRING") = <<>>

====
